---- MODULE Spec2Model ----
(***************************************************************************)
(* A model of vk_photos.py: the command line script that downloads the     *)
(* photos of a vk.com user page, group page or single album.               *)
(*                                                                         *)
(* Strings the program inspects character by character (album titles, the  *)
(* link) are sequences of one-character strings.  The remote service, the  *)
(* network and the user (Ctrl-C) are the environment: every remote call    *)
(* either returns a value drawn from a small set or raises.                *)
(***************************************************************************)
EXTENDS Integers, Sequences, FiniteSets, TLC

(***************************************************************************)
(* Program constants                                                       *)
(***************************************************************************)
\* VK API returns only 1000 photos in one response
MAX_PHOTO_NUM == 1000

\* for photo_type in 'wzyxrqpmos'
PhotoTypes == <<"w", "z", "y", "x", "r", "q", "p", "m", "o", "s">>

\* Symbols that are not allowed in Windows dir names
sym_replace == {"\"", ":", "&", ".", "|", "\\", "/", "*", "?", "<", ">"}

None == "None"

(***************************************************************************)
(* Bounds of the model                                                     *)
(***************************************************************************)
\* an album holds at most MaxFullPages full pages, plus one photo
MaxFullPages == 1
\* the remote listing holds at most MaxAlbums custom albums
MaxAlbums == 2
\* one response of the remote service holds at most MaxPageItems records
MaxPageItems == 2
\* an album title has at most MaxTitleLen characters
MaxTitleLen == 3
\* a photo record has at most MaxSizes size variants
MaxSizes == 2

(***************************************************************************)
(* Sequences                                                               *)
(***************************************************************************)
SeqsUpTo(S, n) == UNION {[1..k -> S] : k \in 0..n}

Range(s) == {s[k] : k \in DOMAIN s}

\* str.split(sep): the pieces of s between the occurrences of sep, left to right
RECURSIVE Split(_, _)
Split(s, sep) ==
    LET n == Len(sep)
        hits == {k \in 1..(Len(s) - n + 1) : SubSeq(s, k, k + n - 1) = sep}
    IN  IF hits = {}
        THEN <<s>>
        ELSE LET k == CHOOSE h \in hits : \A g \in hits : h <= g
             IN  <<SubSeq(s, 1, k - 1)>> \o Split(SubSeq(s, k + n, Len(s)), sep)

\* sep.join(parts)
RECURSIVE Join(_, _)
Join(sep, parts) ==
    IF parts = <<>> THEN <<>>
    ELSE IF Len(parts) = 1 THEN parts[1]
    ELSE parts[1] \o sep \o Join(sep, Tail(parts))

Whitespace == {" ", "\t"}

\* str.strip(): leading and trailing whitespace removed
RECURSIVE Strip(_)
Strip(s) ==
    IF s = <<>> THEN s
    ELSE IF s[1] \in Whitespace THEN Strip(Tail(s))
    ELSE IF s[Len(s)] \in Whitespace THEN Strip(SubSeq(s, 1, Len(s) - 1))
    ELSE s

(***************************************************************************)
(* del_restricted_symbols                                                  *)
(***************************************************************************)
\* for s in title: if s in sym_replace: title = '-'.join(title.split(s))
\* The loop runs over the characters of the stripped title it started with,
\* while title is rebound to the string with the replacements made so far.
RECURSIVE ReplaceLoop(_, _, _)
ReplaceLoop(chars, k, title) ==
    IF k > Len(chars) THEN title
    ELSE IF chars[k] \in sym_replace
         THEN ReplaceLoop(chars, k + 1, Join(<<"-">>, Split(title, <<chars[k]>>)))
         ELSE ReplaceLoop(chars, k + 1, title)

\* mutant: the loop stops at the first restricted character it meets
del_restricted_symbols_FirstOnly(album_title) ==
    LET title == Strip(album_title)
        hits == {k \in DOMAIN title : title[k] \in sym_replace}
    IN  IF hits = {} THEN title
        ELSE LET k == CHOOSE h \in hits : \A g \in hits : h <= g
             IN  Join(<<"-">>, Split(title, <<title[k]>>))

\* mutant: the title is not stripped
del_restricted_symbols_NoStrip(album_title) ==
    ReplaceLoop(album_title, 1, album_title)

del_restricted_symbols(album_title) ==
    LET title == Strip(album_title)
    IN  ReplaceLoop(title, 1, title)

(***************************************************************************)
(* arg_handler                                                             *)
(***************************************************************************)
AlbumTypes == {"main", "tagged", "system_wall", "system_profile", "system_saved"}

SetTrue(params, types) ==
    [k \in DOMAIN params |-> IF k \in types THEN TRUE ELSE params[k]]

\* mutant: --system_all does not switch the three system albums on
arg_handler_NoSystemAll(a) ==
    LET params == [page_type |-> a.page_type, link |-> a.link,
                   main |-> a.main, tagged |-> a.tagged,
                   system_wall |-> a.system_wall,
                   system_profile |-> a.system_profile,
                   system_saved |-> a.system_saved]
    IN  IF ~(a.main \/ a.system_all \/ a.system_profile
             \/ a.system_saved \/ a.system_wall \/ a.tagged)
        THEN SetTrue(params, AlbumTypes)
        ELSE params

arg_handler(a) ==
    LET params == [page_type |-> a.page_type, link |-> a.link,
                   main |-> a.main, tagged |-> a.tagged,
                   system_wall |-> a.system_wall,
                   system_profile |-> a.system_profile,
                   system_saved |-> a.system_saved]
        params1 == IF a.system_all
                   THEN SetTrue(params, {"system_wall", "system_profile",
                                         "system_saved"})
                   ELSE params
    IN  IF ~(a.main \/ a.system_all \/ a.system_profile
             \/ a.system_saved \/ a.system_wall \/ a.tagged)
        THEN SetTrue(params1, AlbumTypes)
        ELSE params1

(***************************************************************************)
(* download_photos: the url of the photo with the max resolution           *)
(***************************************************************************)
\* photo_links = {size['type']: size['url'] for size in photo['sizes']}
\* (a later entry of the same type replaces an earlier one)
photo_links(sizes) ==
    LET types == {sizes[k].type : k \in DOMAIN sizes}
        last(t) == CHOOSE k \in DOMAIN sizes :
                      /\ sizes[k].type = t
                      /\ \A j \in DOMAIN sizes : sizes[j].type = t => j <= k
    IN  [t \in types |-> sizes[last(t)].url]

\* dict.get
Get(d, key) == IF key \in DOMAIN d THEN d[key] ELSE None

\* mutant: the loop over the types has no break
TypeLoop_NoBreak(links, k) == Get(links, PhotoTypes[Len(PhotoTypes)])

\* for photo_type in 'wzyxrqpmos': url = photo_links.get(photo_type)
\*                                 if url: break
RECURSIVE TypeLoop(_, _)
TypeLoop(links, k) ==
    LET got == Get(links, PhotoTypes[k])
    IN  IF got # None \/ k = Len(PhotoTypes) THEN got
        ELSE TypeLoop(links, k + 1)

max_resolution_url(sizes) == TypeLoop(photo_links(sizes), 1)

(***************************************************************************)
(* link_parse                                                              *)
(***************************************************************************)
Digits == <<"0", "1", "2", "3", "4", "5", "6", "7", "8", "9">>

DigitValue(c) == (CHOOSE k \in DOMAIN Digits : Digits[k] = c) - 1

RECURSIVE Decimal(_)
Decimal(s) ==
    IF s = <<>> THEN 0
    ELSE 10 * Decimal(SubSeq(s, 1, Len(s) - 1)) + DigitValue(s[Len(s)])

IsDecimal(s) == s # <<>> /\ \A k \in DOMAIN s : s[k] \in Range(Digits)

\* int(str): an optional sign and decimal digits; anything else raises ValueError
IsInt(s) ==
    \/ IsDecimal(s)
    \/ s # <<>> /\ s[1] \in {"-", "+"} /\ IsDecimal(Tail(s))

int(s) ==
    IF s[1] = "-" THEN 0 - Decimal(Tail(s))
    ELSE IF s[1] = "+" THEN Decimal(Tail(s))
    ELSE Decimal(s)

link_end(link) == LET parts == Split(link, <<"/">>) IN parts[Len(parts)]

\* page type album: ids = link_end.split('album')[1].split('_')
\*                  return int(ids[0]), int(ids[1])
\* The result: the exception raised (None if none) and the pair of ids.
Raises(e) == [error |-> e, ids |-> <<>>]

link_parse_album(link) ==
    LET halves == Split(link_end(link), <<"a", "l", "b", "u", "m">>)
    IN  IF Len(halves) < 2 THEN Raises("IndexError")
        ELSE LET ids == Split(halves[2], <<"_">>)
             IN  IF ~IsInt(ids[1]) THEN Raises("ValueError")
                 ELSE IF Len(ids) < 2 THEN Raises("IndexError")
                 ELSE IF ~IsInt(ids[2]) THEN Raises("ValueError")
                 ELSE [error |-> None, ids |-> <<int(ids[1]), int(ids[2])>>]

(***************************************************************************)
(* download_photos: the name of the file                                   *)
(***************************************************************************)
\* '{}'.format(k) for an int: the decimal digits, a minus sign before them
RECURSIVE Str(_)
Str(k) ==
    IF k < 0 THEN <<"-">> \o Str(0 - k)
    ELSE IF k < 10 THEN <<Digits[k + 1]>>
    ELSE Append(Str(k \div 10), Digits[(k % 10) + 1])

\* %m, %d, %H, %M and %Y: the decimal digits, zero-padded to width w
RECURSIVE Pad(_, _)
Pad(k, w) ==
    IF Len(Str(k)) >= w THEN Str(k)
    ELSE <<"0">> \o Pad(k, w - 1)

\* datetime.datetime.fromtimestamp(ts): the civil date and time of ts seconds
\* since the epoch (the zone of the machine is taken to be UTC)
fromtimestamp(ts) ==
    LET days == ts \div 86400
        secs == ts % 86400
        z == days + 719468
        era == z \div 146097
        doe == z - era * 146097
        yoe == (doe - doe \div 1460 + doe \div 36524 - doe \div 146096) \div 365
        doy == doe - (365 * yoe + yoe \div 4 - yoe \div 100)
        mp == (5 * doy + 2) \div 153
        m == IF mp < 10 THEN mp + 3 ELSE mp - 9
    IN  [year |-> yoe + era * 400 + (IF m <= 2 THEN 1 ELSE 0),
         month |-> m,
         day |-> doy - (153 * mp + 2) \div 5 + 1,
         hour |-> secs \div 3600,
         minute |-> (secs % 3600) \div 60,
         second |-> secs % 60]

\* date.strftime('%Y%m%d@%H%M')
strftime(date) ==
    Pad(date.year, 4) \o Pad(date.month, 2) \o Pad(date.day, 2) \o <<"@">>
       \o Pad(date.hour, 2) \o Pad(date.minute, 2)

\* mutant: the photo id is left out of the title
photo_title_DateOnly(photo) == strftime(fromtimestamp(photo.date))

\* photo_title = '{}_{}'.format(photo_date, photo['id'])
photo_title(photo) ==
    strftime(fromtimestamp(photo.date)) \o <<"_">> \o Str(photo.id)

\* '{}.jpg'.format(photo_title)
file_name(photo) == photo_title(photo) \o <<".", "j", "p", "g">>

(***************************************************************************)
(* The inputs of a run and the answers of the remote service               *)
(***************************************************************************)
PageTypes == {"album", "group", "user"}

\* https://vk.com/album1_2 and relatives, from the last '/' on
AlbumLinks ==
    { <<"/", "a", "l", "b", "u", "m", "1", "_", "2">>,
      <<"/", "a", "l", "b", "u", "m", "-", "1", "_", "2">>,
      <<"/", "a", "l", "b", "u", "m", "1">>,
      <<"/", "a", "l", "b", "u", "m", "x", "_", "2">>,
      <<"/", "i", "d", "1">> }

PageLinks == { <<"/", "i", "d", "1">> }

Links(page_type) == IF page_type = "album" THEN AlbumLinks ELSE PageLinks

Flags == {"main", "system_all", "system_wall", "system_profile",
          "system_saved", "tagged"}

\* argparse.Namespace: the page type, the link and the six store_true flags
Namespaces ==
    { [f \in Flags \cup {"page_type", "link"} |->
          IF f = "page_type" THEN t ELSE IF f = "link" THEN l ELSE f \in on]
      : <<t, l, on>> \in
          UNION { {<<pt, lk, fs>> : lk \in Links(pt), fs \in SUBSET Flags}
                  : pt \in PageTypes } }

\* photos_list['count']
SizeChoices ==
    {k * MAX_PHOTO_NUM + d : k \in 0..MaxFullPages, d \in {0, 1}}

\* a photo object: a deleted photo has no sizes
Deleted == [id |-> 1, date |-> 1700000000, sizes |-> <<>>]
Photo == [id |-> 2, date |-> 1700000000,
          sizes |-> << [type |-> "s", url |-> "a"],
                                 [type |-> "w", url |-> "c"] >>]
PhotoChoices == {Deleted, Photo}

\* photos_list['items']
Pages == SeqsUpTo(PhotoChoices, MaxPageItems)

\* albums['items']: the k-th album of the listing has id 10 + k
TitleOf(k) == <<"a", ":", Digits[k + 1]>>

\* album['size'] of a listed album: download_album reads it only through
\* album_size // MAX_PHOTO_NUM, so one size for each number of full pages
ListingSizes == {k * MAX_PHOTO_NUM : k \in 0..MaxFullPages}

Listings ==
    UNION { { [k \in 1..len |-> [id |-> 10 + k, title |-> TitleOf(k),
                                  size |-> sz[k]]]
              : sz \in [1..len -> ListingSizes] }
            : len \in 0..MaxAlbums }

\* the objects users.get / groups.getById return
LookupChoices == { <<>>, << [id |-> 1] >>, << [id |-> 1], [id |-> 2] >> }

(***************************************************************************)
(* The state of a run                                                      *)
(***************************************************************************)
VARIABLES
    args,         \* the parsed command line
    args_dict,    \* arg_handler(args)
    pc,           \* the statement of __main__ the run is at
    block,        \* the try block the run is in: album (page type album),
                  \* main, tagged, system_wall, system_profile, system_saved,
                  \* or none (the outer try only)
    authed,       \* connection.auth() has returned
    screen_name,  \* link_parse's result for a user or group page
    owner_id,
    albums,       \* albums['items'] while the --main block runs
    n,            \* the index in albums of the album of the for loop
    album_title, album_dir, album_id, album_size,   \* download_album's frame
    offset,       \* download_album's loop variable
    fetches,      \* the page queries download_album has issued for this album
    completed,    \* download_album has returned for this album
    photos, i,    \* download_photos' frame: the page, the (1-based) index
    handled,      \* the records of the page download_photos has been through
    io,           \* what the last step did to the outside world, in order
    started,      \* the albums whose first query has been issued, in order
    slept,        \* time.sleep(1) has returned since the last album started
    raised,       \* the exception raised in the last step, None if none
    ending,       \* the exception that ended the outer try, normal if none
    exit_code     \* the exit status of the process

inp == <<args, args_dict>>
sess == <<authed, screen_name, owner_id>>
loopCtx == <<albums, n>>
albumCtx == <<album_title, album_dir, album_id, album_size, offset, fetches,
              completed>>
pageCtx == <<photos, i, handled>>
hist == <<started, slept>>
endv == <<ending, exit_code>>

vars == <<args, args_dict, pc, block, authed, screen_name, owner_id, albums,
          n, album_title, album_dir, album_id, album_size, offset, fetches,
          completed, photos, i, handled, io, started, slept, raised, ending,
          exit_code>>

\* the titles the script gives the single album and the pseudo-albums
FixedTitle(b) ==
    CASE b = "album" -> <<"A", "l", "b", "u", "m">>
      [] b = "tagged" ->
           <<"P", "h", "o", "t", "o", "s", " ", "t", "h", "e", " ", "u", "s", "e", "r", " ">> \o
           <<"i", "s", " ", "t", "a", "g", "g", "e", "d", " ", "o", "n">>
      [] b = "system_wall" -> <<"P", "h", "o", "t", "o", "s", " ", "f", "r", "o", "m", " ", "t", "h", "e", " ", "w", "a", "l", "l">>
      [] b = "system_profile" -> <<"P", "r", "o", "f", "i", "l", "e", " ", "p", "h", "o", "t", "o", "s">>
      [] b = "system_saved" -> <<"S", "a", "v", "e", "d", " ", "p", "h", "o", "t", "o", "s">>
\* no download_album frame
NoAlbum ==
    /\ album_title' = <<>>
    /\ album_dir' = <<>>
    /\ album_id' = 0
    /\ album_size' = 0
    /\ offset' = 0
    /\ fetches' = <<>>
    /\ completed' = FALSE

\* no download_photos frame
NoPage ==
    /\ photos' = <<>>
    /\ i' = 0
    /\ handled' = <<>>

\* the for loop of the --main block is over; albums is not read again
NoLoop ==
    /\ albums' = <<>>
    /\ n' = 0

\* everything but the command line, before the script has done anything
Idle ==
    /\ args_dict = None
    /\ block = "none"
    /\ authed = FALSE
    /\ screen_name = <<>>
    /\ owner_id = 0
    /\ albums = <<>>
    /\ n = 0
    /\ album_title = <<>>
    /\ album_dir = <<>>
    /\ album_id = 0
    /\ album_size = 0
    /\ offset = 0
    /\ fetches = <<>>
    /\ completed = FALSE
    /\ photos = <<>>
    /\ i = 0
    /\ handled = <<>>
    /\ io = <<>>
    /\ started = <<>>
    /\ slept = FALSE
    /\ raised = None
    /\ ending = "normal"
    /\ exit_code = 0

Init ==
    /\ args \in Namespaces
    /\ pc = "start"
    /\ Idle

(***************************************************************************)
(* What a step does to the outside world                                   *)
(***************************************************************************)
Query(q) == [op |-> "query", q |-> q]
Stdout(text) == [op |-> "print", text |-> text]
ProgressLine(k) == [op |-> "progress", n |-> k]
HttpGet(u) == [op |-> "get", url |-> u]
Write(dir, name) == [op |-> "write", dir |-> dir, name |-> name]
Pause == [op |-> "sleep"]
\* what the remote service answered to the query before it
Reply(value) == [op |-> "reply", value |-> value]

Does(events, op) == \E k \in DOMAIN events : events[k].op = op

(***************************************************************************)
(* Control: the if statements of __main__ and the except clauses           *)
(***************************************************************************)
BlockOrder == <<"main", "tagged", "system_wall", "system_profile",
                "system_saved">>

BlockIndex(b) == CHOOSE k \in DOMAIN BlockOrder : BlockOrder[k] = b

\* mutant: the tagged block does not look at the page type
Selected_AnyPageType(b) == args_dict[b]

\* if args_dict['main'], if args_dict['page_type'] == 'user' and
\* args_dict['tagged'], if args_dict['system_wall'], ...
Selected(b) ==
    IF b = "tagged" THEN args_dict.page_type = "user" /\ args_dict.tagged
    ELSE args_dict[b]

\* the first block from the k-th on whose if condition holds, 0 if none
NextSelected(k) ==
    LET later == {j \in k..Len(BlockOrder) : Selected(BlockOrder[j])}
    IN  IF later = {} THEN 0
        ELSE CHOOSE j \in later : \A h \in later : j <= h

\* run on from the k-th if statement: into the first block selected (the
\* --main block begins with photos.getAlbums, the others with
\* get_album_size), or to the end of the outer try
EnterBlock(k) ==
    LET j == NextSelected(k)
    IN  IF j = 0 THEN pc' = "finally" /\ block' = "none"
        ELSE /\ block' = BlockOrder[j]
             /\ pc' = IF BlockOrder[j] = "main" THEN "albums" ELSE "size"

\* an exception leaves download_photos, download_album and the for loop
Unwind == NoLoop /\ NoAlbum /\ NoPage

\* except vk_api.exceptions.ApiError: the clause of the block the run is in
\* prints and the run goes on after that block; outside these blocks the
\* clause of the outer try prints and the script ends
OnApiError(did) ==
    /\ Unwind
    /\ IF block \in Range(BlockOrder)
       THEN /\ io' = Append(did, Stdout("album error"))
            /\ EnterBlock(BlockIndex(block) + 1)
            /\ UNCHANGED endv
       ELSE /\ io' = Append(did, Stdout("error"))
            /\ pc' = "finally" /\ block' = "none"
            /\ ending' = "ApiError"
            /\ UNCHANGED exit_code

\* except Exception: print(e); sys.exit(1)
OnException(e, did) ==
    /\ Unwind
    /\ io' = Append(did, Stdout("error"))
    /\ pc' = "finally" /\ block' = "none"
    /\ ending' = e
    /\ exit_code' = 1

\* mutant: the handler ends the process on the spot, as os._exit does
OnKeyboardInterrupt_HardExit(did) ==
    /\ Unwind
    /\ io' = Append(did, Stdout("Stopped by the user."))
    /\ pc' = "done" /\ block' = "none"
    /\ ending' = "KeyboardInterrupt"
    /\ exit_code' = 0

\* mutant: KeyboardInterrupt is caught by the except clause of the block
OnKeyboardInterrupt_AsAlbumError(did) ==
    /\ Unwind
    /\ IF block \in Range(BlockOrder)
       THEN /\ io' = Append(did, Stdout("album error"))
            /\ EnterBlock(BlockIndex(block) + 1)
            /\ UNCHANGED endv
       ELSE /\ io' = Append(did, Stdout("Stopped by the user."))
            /\ pc' = "finally" /\ block' = "none"
            /\ ending' = "KeyboardInterrupt"
            /\ exit_code' = 0

\* except KeyboardInterrupt: print('\nStopped by the user.'); sys.exit()
OnKeyboardInterrupt(did) ==
    /\ Unwind
    /\ io' = Append(did, Stdout("Stopped by the user."))
    /\ pc' = "finally" /\ block' = "none"
    /\ ending' = "KeyboardInterrupt"
    /\ exit_code' = 0

\* mutant: the photo fetch failure is recovered like an ApiError of the album
OnRequestException_Recovered(did) == OnApiError(did)

\* except requests.exceptions.RequestException: print(req_e); sys.exit(1)
\* SystemExit is no Exception: no except clause of __main__ catches it
OnRequestException(did) ==
    /\ Unwind
    /\ io' = Append(did, Stdout("error"))
    /\ pc' = "finally" /\ block' = "none"
    /\ ending' = "SystemExit"
    /\ exit_code' = 1

(***************************************************************************)
(* __main__ up to the albums                                               *)
(***************************************************************************)
\* args_dict = arg_handler(args)
ArgHandler ==
    /\ pc = "start"
    /\ args_dict' = arg_handler(args)
    /\ pc' = "auth"
    /\ io' = <<>>
    /\ UNCHANGED <<args, block, sess, loopCtx, albumCtx, pageCtx, hist,
                   raised, endv>>

\* connection = vk_api.VkApi(...); connection.auth()
Auth ==
    /\ pc = "auth"
    /\ authed' = TRUE
    /\ pc' = "link"
    /\ io' = <<>>
    /\ raised' = None
    /\ UNCHANGED <<inp, block, screen_name, owner_id, loopCtx, albumCtx,
                   pageCtx, hist, endv>>

\* connection.auth() raises AuthError, which is no ApiError
AuthFail ==
    /\ pc = "auth"
    /\ raised' = "AuthError"
    /\ OnException("AuthError", <<>>)
    /\ UNCHANGED <<inp, sess, hist>>

\* page type album: owner_id, album_id = link_parse(link, page_type)
LinkParseAlbum ==
    /\ pc = "link"
    /\ args_dict.page_type = "album"
    /\ LET r == link_parse_album(args_dict.link)
       IN  /\ r.error = None
           /\ owner_id' = r.ids[1]
           /\ album_id' = r.ids[2]
    /\ block' = "album"
    /\ pc' = "size"
    /\ io' = <<>>
    /\ raised' = None
    /\ UNCHANGED <<inp, authed, screen_name, loopCtx, album_title, album_dir,
                   album_size, offset, fetches, completed, pageCtx, hist,
                   endv>>

\* page type album: link_parse raises IndexError or ValueError
LinkParseError ==
    /\ pc = "link"
    /\ args_dict.page_type = "album"
    /\ LET r == link_parse_album(args_dict.link)
       IN  /\ r.error # None
           /\ raised' = r.error
           /\ OnException(r.error, <<>>)
    /\ UNCHANGED <<inp, sess, hist>>

\* page type user or group: screen_name = link_parse(link, page_type)
LinkParsePage ==
    /\ pc = "link"
    /\ args_dict.page_type # "album"
    /\ screen_name' = link_end(args_dict.link)
    /\ pc' = "owner"
    /\ io' = <<>>
    /\ raised' = None
    /\ UNCHANGED <<inp, block, authed, owner_id, loopCtx, albumCtx, pageCtx,
                   hist, endv>>

\* the query of get_owner_id
OwnerQuery ==
    IF args_dict.page_type = "user"
    THEN [method |-> "users.get", user_ids |-> screen_name]
    ELSE [method |-> "groups.getById", group_id |-> screen_name]

\* mutant: the id of a group is not negated
get_owner_id_NoNegation(objs, user) == objs[1].id

\* return user_objs[0]['id'], return group_objs[0]['id'] * (-1)
get_owner_id(objs, user) ==
    IF user THEN objs[1].id ELSE objs[1].id * (-1)

\* owner_id = get_owner_id(connection, screen_name, ...)
GetOwnerId ==
    /\ pc = "owner"
    /\ raised' = None
    /\ \E objs \in LookupChoices \ {<<>>} :
          /\ io' = <<Query(OwnerQuery), Reply(objs)>>
          /\ owner_id' = get_owner_id(objs, args_dict.page_type = "user")
    /\ EnterBlock(1)
    /\ UNCHANGED <<inp, authed, screen_name, loopCtx, albumCtx, pageCtx, hist,
                   endv>>

\* the lookup returns no object: user_objs[0] raises IndexError
GetOwnerIdEmpty ==
    /\ pc = "owner"
    /\ raised' = "IndexError"
    /\ OnException("IndexError", <<Query(OwnerQuery), Reply(<<>>)>>)
    /\ UNCHANGED <<inp, sess, hist>>

\* the lookup raises ApiError
GetOwnerIdApiError ==
    /\ pc = "owner"
    /\ raised' = "ApiError"
    /\ OnApiError(<<Query(OwnerQuery)>>)
    /\ UNCHANGED <<inp, sess, hist>>

(***************************************************************************)
(* download_album, get_album_size and download_photos                      *)
(***************************************************************************)
\* the album the run is at, as started names it
AlbumRef == <<block, IF block \in {"main", "album"} THEN album_id ELSE 0>>

\* mutant: every call passes tagged=False
Tagged_Never(b) == FALSE

\* the tagged argument of get_album_size and download_album at each call
Tagged(b) == b = "tagged"

\* the album_id argument of get_album_size and download_album at each call
AlbumIdArg(b) ==
    CASE b = "system_wall" -> "wall"
      [] b = "system_profile" -> "profile"
      [] b = "system_saved" -> "saved"
      [] b = "tagged" -> 0
      [] OTHER -> album_id

\* range(album_size//MAX_PHOTO_NUM + 1)
PageCount(size) == size \div MAX_PHOTO_NUM + 1

\* mutant: get_album_size asks for the first page, count and offset given
SizeQuery_FirstPage ==
    IF Tagged(block)
    THEN [method |-> "photos.getUserPhotos", user_id |-> owner_id,
          count |-> MAX_PHOTO_NUM, offset |-> 0]
    ELSE [method |-> "photos.get", owner_id |-> owner_id,
          album_id |-> AlbumIdArg(block),
          count |-> MAX_PHOTO_NUM, offset |-> 0]

\* get_album_size's query
SizeQuery ==
    IF Tagged(block)
    THEN [method |-> "photos.getUserPhotos", user_id |-> owner_id]
    ELSE [method |-> "photos.get", owner_id |-> owner_id,
          album_id |-> AlbumIdArg(block)]

\* download_album's query for the page at offset
PageQuery ==
    IF Tagged(block)
    THEN [method |-> "photos.getUserPhotos", user_id |-> owner_id,
          count |-> MAX_PHOTO_NUM, offset |-> offset * MAX_PHOTO_NUM]
    ELSE [method |-> "photos.get", owner_id |-> owner_id,
          album_id |-> album_id,
          count |-> MAX_PHOTO_NUM, offset |-> offset * MAX_PHOTO_NUM]

\* download_album is called: album_dir = del_restricted_symbols(album_title),
\* the directory is made, and the loop over the pages begins
CallDownloadAlbum(title, size, id) ==
    /\ album_title' = title
    /\ album_size' = size
    /\ album_id' = id
    /\ album_dir' = del_restricted_symbols(title)
    /\ offset' = 0
    /\ fetches' = <<>>
    /\ completed' = FALSE
    /\ pc' = "fetch"

\* mutant: after the album of page type album the run goes on with the
\* blocks of a user or group page
AfterAlbum_FallsThrough ==
    IF block = "album" THEN EnterBlock(1)
    ELSE IF block = "system_saved"
         THEN EnterBlock(BlockIndex(block) + 1)
         ELSE pc' = "sleep" /\ UNCHANGED block

\* download_album has returned: time.sleep(1) follows in every block but
\* --system_saved; for page type album and --system_saved the try ends
AfterAlbum ==
    IF block = "album" THEN pc' = "finally" /\ block' = "none"
    ELSE IF block = "system_saved"
         THEN EnterBlock(BlockIndex(block) + 1)
         ELSE pc' = "sleep" /\ UNCHANGED block

\* download_photos has returned: the next page, or the end of download_album
AfterPage ==
    /\ NoPage
    /\ IF offset + 1 < PageCount(album_size)
       THEN /\ offset' = offset + 1
            /\ pc' = "fetch"
            /\ UNCHANGED <<block, completed>>
       ELSE /\ completed' = TRUE
            /\ UNCHANGED offset
            /\ AfterAlbum

\* the first query of an album is about to be issued
FirstQuery == pc = "size" \/ (pc = "fetch" /\ block = "main" /\ offset = 0)

\* photos.getAlbums returns the listing; the for loop starts on its first album
GetAlbums ==
    /\ pc = "albums"
    /\ raised' = None
    /\ \E items \in Listings :
          IF items = <<>>
          THEN /\ io' = <<Query([method |-> "photos.getAlbums",
                                 owner_id |-> owner_id])>>
               /\ EnterBlock(BlockIndex("main") + 1)
               /\ UNCHANGED <<loopCtx, albumCtx>>
          ELSE /\ io' = <<Query([method |-> "photos.getAlbums",
                                 owner_id |-> owner_id]), Stdout("album")>>
               /\ albums' = items
               /\ n' = 1
               /\ CallDownloadAlbum(items[1].title, items[1].size,
                                    items[1].id)
               /\ UNCHANGED block
    /\ UNCHANGED <<inp, sess, pageCtx, hist, endv>>

\* photos.getAlbums raises ApiError
GetAlbumsApiError ==
    /\ pc = "albums"
    /\ raised' = "ApiError"
    /\ OnApiError(<<Query([method |-> "photos.getAlbums",
                           owner_id |-> owner_id])>>)
    /\ UNCHANGED <<inp, sess, hist>>

\* album_size = get_album_size(...); print; download_album(...) is called
GetAlbumSize ==
    /\ pc = "size"
    /\ io' = <<Query(SizeQuery), Stdout("album")>>
    /\ raised' = None
    /\ started' = Append(started, AlbumRef)
    /\ slept' = FALSE
    /\ \E count \in SizeChoices :
          CallDownloadAlbum(FixedTitle(block), count, AlbumIdArg(block))
    /\ UNCHANGED <<inp, block, sess, loopCtx, pageCtx, endv>>

\* get_album_size's query raises ApiError
GetAlbumSizeApiError ==
    /\ pc = "size"
    /\ started' = Append(started, AlbumRef)
    /\ slept' = FALSE
    /\ raised' = "ApiError"
    /\ OnApiError(<<Query(SizeQuery)>>)
    /\ UNCHANGED <<inp, sess>>

\* what issuing a page query records: the first query of a custom album is
\* its page query at offset 0
PageQueryIssued ==
    IF FirstQuery
    THEN started' = Append(started, AlbumRef) /\ slept' = FALSE
    ELSE UNCHANGED <<started, slept>>

\* photos_list = connection.method(...); download_photos(photos_list['items'])
\* is called, and returns at once when the page is empty
GetPage ==
    /\ pc = "fetch"
    /\ io' = <<Query(PageQuery)>>
    /\ raised' = None
    /\ PageQueryIssued
    /\ fetches' = Append(fetches, [count |-> MAX_PHOTO_NUM,
                                   offset |-> offset * MAX_PHOTO_NUM])
    /\ \E items \in Pages :
          IF items = <<>>
          THEN AfterPage
          ELSE /\ photos' = items
               /\ i' = 1
               /\ handled' = <<>>
               /\ pc' = "photo"
               /\ UNCHANGED <<block, offset, completed>>
    /\ UNCHANGED <<inp, sess, loopCtx, album_title, album_dir, album_id,
                   album_size, endv>>

\* the page query raises ApiError
GetPageApiError ==
    /\ pc = "fetch"
    /\ PageQueryIssued
    /\ raised' = "ApiError"
    /\ OnApiError(<<Query(PageQuery)>>)
    /\ UNCHANGED <<inp, sess>>

\* for i, photo in enumerate(photos): the progress line
\* "\rDownloading...{}".format(offset*MAX_PHOTO_NUM + i + 1), i from 0
Progress == ProgressLine(offset * MAX_PHOTO_NUM + (i - 1) + 1)

\* the next record of the page, or the end of download_photos
NextPhoto ==
    IF i < Len(photos)
    THEN /\ i' = i + 1
         /\ handled' = Append(handled, photos[i])
         /\ UNCHANGED <<pc, block, photos, offset, completed>>
    ELSE AfterPage

\* mutant: no check for a deleted photo, requests.get(None) raises
SkipPhoto_Raises ==
    /\ pc = "photo"
    /\ photos[i].sizes = <<>>
    /\ raised' = "RequestException"
    /\ OnRequestException(<<Progress, HttpGet(None)>>)
    /\ UNCHANGED <<inp, sess, hist>>

\* if not photo['sizes']: continue
SkipPhoto ==
    /\ pc = "photo"
    /\ photos[i].sizes = <<>>
    /\ io' = <<Progress>>
    /\ raised' = None
    /\ NextPhoto
    /\ UNCHANGED <<inp, sess, loopCtx, album_title, album_dir, album_id,
                   album_size, fetches, hist, endv>>

\* response = requests.get(url); the file is opened and written.
\* requests.get(None) raises MissingSchema, a RequestException.
DownloadPhoto ==
    /\ pc = "photo"
    /\ photos[i].sizes # <<>>
    /\ LET url == max_resolution_url(photos[i].sizes)
       IN  /\ url # None
           /\ io' = <<Progress, HttpGet(url), Write(album_dir, file_name(photos[i]))>>
    /\ raised' = None
    /\ NextPhoto
    /\ UNCHANGED <<inp, sess, loopCtx, album_title, album_dir, album_id,
                   album_size, fetches, hist, endv>>

\* requests.get(url) raises RequestException
PhotoFetchError ==
    /\ pc = "photo"
    /\ photos[i].sizes # <<>>
    /\ raised' = "RequestException"
    /\ OnRequestException(<<Progress,
                            HttpGet(max_resolution_url(photos[i].sizes))>>)
    /\ UNCHANGED <<inp, sess, hist>>

\* time.sleep(1), then the next album of the for loop or the next block
Sleep ==
    /\ pc = "sleep"
    /\ slept' = TRUE
    /\ raised' = None
    /\ IF block = "main" /\ n < Len(albums)
       THEN /\ io' = <<Pause, Stdout("album")>>
            /\ n' = n + 1
            /\ CallDownloadAlbum(albums[n + 1].title, albums[n + 1].size,
                                 albums[n + 1].id)
            /\ UNCHANGED <<block, albums>>
       ELSE /\ io' = <<Pause>>
            /\ EnterBlock(BlockIndex(block) + 1)
            /\ NoLoop
            /\ NoAlbum
    /\ UNCHANGED <<inp, sess, pageCtx, started, endv>>

\* the user presses Ctrl-C while the outer try statement runs
Interrupt ==
    /\ pc \in {"auth", "link", "owner", "albums", "size", "fetch", "photo",
               "sleep"}
    /\ raised' = "KeyboardInterrupt"
    /\ OnKeyboardInterrupt(<<>>)
    /\ UNCHANGED <<inp, sess, hist>>

\* finally: print("\nDone."), and the process exits
Finally ==
    /\ pc = "finally"
    /\ pc' = "done"
    /\ io' = <<Stdout("Done.")>>
    /\ raised' = None
    /\ Unwind
    /\ UNCHANGED <<inp, block, sess, hist, endv>>

Next ==
    \/ ArgHandler
    \/ Auth
    \/ AuthFail
    \/ LinkParseAlbum
    \/ LinkParseError
    \/ LinkParsePage
    \/ GetOwnerId
    \/ GetOwnerIdEmpty
    \/ GetOwnerIdApiError
    \/ GetAlbums
    \/ GetAlbumsApiError
    \/ GetAlbumSize
    \/ GetAlbumSizeApiError
    \/ GetPage
    \/ GetPageApiError
    \/ SkipPhoto
    \/ DownloadPhoto
    \/ PhotoFetchError
    \/ Sleep
    \/ Interrupt
    \/ Finally

Spec == Init /\ [][Next]_vars

\* the position of the run: every step of Next changes it
position == <<pc, block, n, offset, i>>

\* every statement of the script returns or raises, so a run does not stop
\* before the end of the script: a step of Next is taken whenever one can be
\* (ArgHandler at the start, Finally at the end, and in between at least
\* Interrupt; the three are disjuncts of Next, named first)
SpecFair ==
    /\ Init
    /\ [][Next]_vars
    /\ WF_position(ArgHandler \/ Interrupt \/ Finally \/ Next)

(***************************************************************************)
(* download_photos on a page whose first record has any sizes: a run of    *)
(* page type album that has just received the page                         *)
(***************************************************************************)
\* photo['sizes']: the ten types of the ranking and one that is not ranked
SizeVariants == [type : Range(PhotoTypes) \cup {"a"}, url : {"u1", "u2"}]

AlbumRun ==
    [page_type |-> "album",
     link |-> <<"/", "a", "l", "b", "u", "m", "1", "_", "2">>,
     main |-> FALSE, system_all |-> FALSE, system_wall |-> FALSE,
     system_profile |-> FALSE, system_saved |-> FALSE, tagged |-> FALSE]

PhotoInit ==
    /\ args = AlbumRun
    /\ args_dict = arg_handler(AlbumRun)
    /\ pc = "photo"
    /\ block = "album"
    /\ authed = TRUE
    /\ screen_name = <<>>
    /\ owner_id = 1
    /\ albums = <<>>
    /\ n = 0
    /\ album_title = FixedTitle("album")
    /\ album_dir = del_restricted_symbols(FixedTitle("album"))
    /\ album_id = 2
    /\ album_size = 2
    /\ offset = 0
    /\ fetches = << [count |-> MAX_PHOTO_NUM, offset |-> 0] >>
    /\ completed = FALSE
    /\ photos \in { << [id |-> 2, date |-> 1700000000, sizes |-> sz],
                       Deleted >>
                    : sz \in SeqsUpTo(SizeVariants, MaxSizes) }
    /\ i = 1
    /\ handled = <<>>
    /\ io = << Query([method |-> "photos.get", owner_id |-> 1,
                      album_id |-> 2, count |-> MAX_PHOTO_NUM,
                      offset |-> 0]) >>
    /\ started = << <<"album", 2>> >>
    /\ slept = FALSE
    /\ raised = None
    /\ ending = "normal"
    /\ exit_code = 0

PhotoNext ==
    \/ SkipPhoto
    \/ DownloadPhoto
    \/ PhotoFetchError
    \/ Finally

SpecPhoto == PhotoInit /\ [][PhotoNext]_vars

(***************************************************************************)
(* download_album called with any album title: a user run (-m) whose       *)
(* listing has two albums, asleep after the first one                      *)
(***************************************************************************)
TitleChars == sym_replace \cup Whitespace \cup {"-", "a"}

UserRun ==
    [page_type |-> "user", link |-> <<"/", "i", "d", "1">>,
     main |-> TRUE, system_all |-> FALSE, system_wall |-> FALSE,
     system_profile |-> FALSE, system_saved |-> FALSE, tagged |-> FALSE]

TitleInit ==
    /\ args = UserRun
    /\ args_dict = arg_handler(UserRun)
    /\ pc = "sleep"
    /\ block = "main"
    /\ authed = TRUE
    /\ screen_name = <<"i", "d", "1">>
    /\ owner_id = 1
    /\ albums \in { << [id |-> 11, title |-> TitleOf(1), size |-> 0],
                       [id |-> 12, title |-> t, size |-> 0] >>
                    : t \in SeqsUpTo(TitleChars, MaxTitleLen) }
    /\ n = 1
    /\ album_title = TitleOf(1)
    /\ album_dir = del_restricted_symbols(TitleOf(1))
    /\ album_id = 11
    /\ album_size = 0
    /\ offset = 0
    /\ fetches = << [count |-> MAX_PHOTO_NUM, offset |-> 0] >>
    /\ completed = TRUE
    /\ photos = <<>>
    /\ i = 0
    /\ handled = <<>>
    /\ io = << Query([method |-> "photos.get", owner_id |-> 1,
                      album_id |-> 11, count |-> MAX_PHOTO_NUM,
                      offset |-> 0]) >>
    /\ started = << <<"main", 11>> >>
    /\ slept = FALSE
    /\ raised = None
    /\ ending = "normal"
    /\ exit_code = 0

TitleNext == Sleep

SpecTitle == TitleInit /\ [][TitleNext]_vars

(***************************************************************************)
(* download_photos on a page of two records with any capture times and     *)
(* ids: a run of page type album that has just received the page           *)
(***************************************************************************)
\* photo['date']: seconds since the epoch
DateChoices == {0, 59, 60, 3600, 86400, 951782400, 1700000000, 1700000040}

\* photo['id']
IdChoices == {1, 12, 42}

NameRecords ==
    [id : IdChoices, date : DateChoices,
     sizes : { << [type |-> "w", url |-> "u1"] >> }]

NameInit ==
    /\ args = AlbumRun
    /\ args_dict = arg_handler(AlbumRun)
    /\ pc = "photo"
    /\ block = "album"
    /\ authed = TRUE
    /\ screen_name = <<>>
    /\ owner_id = 1
    /\ albums = <<>>
    /\ n = 0
    /\ album_title = FixedTitle("album")
    /\ album_dir = del_restricted_symbols(FixedTitle("album"))
    /\ album_id = 2
    /\ album_size = 2
    /\ offset = 0
    /\ fetches = << [count |-> MAX_PHOTO_NUM, offset |-> 0] >>
    /\ completed = FALSE
    /\ photos \in [1..2 -> NameRecords]
    /\ i = 1
    /\ handled = <<>>
    /\ io = << Query([method |-> "photos.get", owner_id |-> 1,
                      album_id |-> 2, count |-> MAX_PHOTO_NUM,
                      offset |-> 0]) >>
    /\ started = << <<"album", 2>> >>
    /\ slept = FALSE
    /\ raised = None
    /\ ending = "normal"
    /\ exit_code = 0

NameNext ==
    \/ DownloadPhoto
    \/ Finally

SpecName == NameInit /\ [][NameNext]_vars

(***************************************************************************)
(* C1: download_album issues exactly ceil(N/C) page queries for an album   *)
(* of N photos (C = 1000), each with count C, at the starting positions    *)
(* 0, C, 2C, ... in that order: none when N = 0, no extra one when N is a  *)
(* multiple of C.                                                          *)
(***************************************************************************)
Ceil(a, b) == (a + b - 1) \div b

C1_CeilPageFetches ==
    completed =>
        /\ Len(fetches) = Ceil(album_size, 1000)
        /\ \A k \in DOMAIN fetches :
              fetches[k] = [count |-> 1000, offset |-> (k - 1) * 1000]

(***************************************************************************)
(* C2: in a user/group run, an ApiError raised while sizing or paging one  *)
(* album aborts only that album: the run goes on with the album that comes *)
(* next in catalog order, the next custom album of the listing included.   *)
(***************************************************************************)
C2_ErrorAbortsOnlyThatAlbum ==
    [][ (raised' = "ApiError" /\ pc \in {"size", "fetch"}
         /\ block \in {"main", "tagged", "system_wall", "system_profile",
                       "system_saved"})
        => IF block = "main" /\ n < Len(albums)
           THEN /\ pc' = "fetch" /\ block' = "main"
                /\ n' = n + 1
                /\ album_id' = albums[n + 1].id
           ELSE pc' \in {"size", "finally"}
      ]_vars

(***************************************************************************)
(* C3: the exit code is 0 when the run ends normally or partially (only    *)
(* ApiErrors recovered at album level), and 1 when a photo fetch fails,    *)
(* when an ApiError reaches the outer try (owner lookup, the album of page *)
(* type album) or when the authentication fails.                           *)
(***************************************************************************)
C3_ExitCodes ==
    pc = "done" =>
        /\ ending = "normal" => exit_code = 0
        /\ ending \in {"SystemExit", "ApiError", "AuthError"} => exit_code = 1

(***************************************************************************)
(* C9: between two albums processed one after the other, time.sleep(1)     *)
(* returns after the earlier album began and before the first query of the *)
(* later one, whether the earlier album completed or raised ApiError.      *)
(***************************************************************************)
C9_PauseBetweenAlbums ==
    (FirstQuery /\ started # <<>>) => slept

(***************************************************************************)
(* C4: a network failure while fetching one photo's bytes is fatal to the  *)
(* whole run: the step that fails writes no file and leaves for the end of *)
(* the script with exit code 1, whatever try block it is in, and nothing   *)
(* but the final notice follows: no photo fetch or write, no query, no     *)
(* later album.                                                            *)
(***************************************************************************)
C4_PhotoFetchFailureIsFatal ==
    [][ /\ raised' = "RequestException" =>
              /\ pc' = "finally"
              /\ ending' = "SystemExit"
              /\ exit_code' = 1
              /\ ~Does(io', "write")
              /\ ~Does(io', "query")
        /\ ending = "SystemExit" =>
              /\ pc' = "done"
              /\ ending' = "SystemExit"
              /\ exit_code' = 1
              /\ started' = started
              /\ ~Does(io', "get")
              /\ ~Does(io', "write")
              /\ ~Does(io', "query")
      ]_vars

\* a user run ended by a photo fetch failure in the tagged album, the wall
\* album selected and never started
C4_Witness ==
    /\ pc = "done"
    /\ ending = "SystemExit"
    /\ exit_code = 1
    /\ args_dict.page_type = "user"
    /\ args_dict.system_wall
    /\ started = << <<"tagged", 0>> >>

(***************************************************************************)
(* C6: a photo record with no sizes is skipped: the step writes the        *)
(* progress line, one more than the record before it, fetches and writes   *)
(* nothing, raises nothing, and the run goes on with the next record of    *)
(* the page, or the next page, or the end of the album.                    *)
(***************************************************************************)
C6_DeletedPhotoIsSkipped ==
    [][ (pc = "photo" /\ photos[i].sizes = <<>>
         /\ raised' # "KeyboardInterrupt")
        => /\ io' = <<ProgressLine(offset * 1000 + i)>>
           /\ i > 1 => io'[1].n = io[1].n + 1
           /\ raised' = None
           /\ UNCHANGED <<ending, exit_code>>
           /\ IF i < Len(photos)
              THEN /\ pc' = "photo"
                   /\ i' = i + 1
                   /\ photos' = photos
                   /\ offset' = offset
              ELSE IF offset + 1 < album_size \div 1000 + 1
                   THEN pc' = "fetch" /\ offset' = offset + 1
                   ELSE completed'
      ]_vars

\* a deleted photo was skipped and the record after it is at hand
C6_Witness ==
    /\ pc = "photo"
    /\ i = 2
    /\ handled[1].sizes = <<>>
    /\ photos[2].sizes # <<>>
    /\ io = <<ProgressLine(offset * 1000 + 1)>>
    /\ ending = "normal"

(***************************************************************************)
(* C7: with no selection flag arg_handler selects main, tagged and the     *)
(* three system albums, the same selection as with all six flags set; and  *)
(* in every combination of flags, -s selects what -sw -sp -ss select.      *)
(***************************************************************************)
Selection(d) == [t \in AlbumTypes |-> d[t]]

C7_NoFlagsMeansAll ==
    pc # "start" =>
        LET noflag == \A f \in Flags : ~args[f]
            all == [f \in DOMAIN args |-> IF f \in Flags THEN TRUE
                                          ELSE args[f]]
            split == [args EXCEPT !.system_all = FALSE,
                                  !.system_wall = TRUE,
                                  !.system_profile = TRUE,
                                  !.system_saved = TRUE]
        IN  /\ noflag =>
                 /\ \A t \in AlbumTypes : args_dict[t]
                 /\ Selection(args_dict) = Selection(arg_handler(all))
            /\ args.system_all =>
                 /\ args_dict.system_wall
                 /\ args_dict.system_profile
                 /\ args_dict.system_saved
                 /\ Selection(args_dict) = Selection(arg_handler(split))

\* arg_handler has run on a command line with -s alone
C7_Witness ==
    /\ pc = "auth"
    /\ args.system_all
    /\ \A f \in Flags \ {"system_all"} : ~args[f]
    /\ args_dict.system_wall /\ args_dict.system_profile
    /\ args_dict.system_saved
    /\ ~args_dict.main /\ ~args_dict.tagged

(***************************************************************************)
(* C8: in a user/group run the albums are processed in catalog order: the  *)
(* custom albums in the order of the listing (only if main is selected),   *)
(* then tagged (user owner only, if selected), then wall, profile, saved,  *)
(* each only if selected; the pages of an album are queried at strictly    *)
(* increasing offsets, and every record of a page is processed, in the     *)
(* order returned, before the next page is queried.                        *)
(***************************************************************************)
CatalogRank(kind) ==
    CASE kind = "album" -> 0
      [] kind = "main" -> 1
      [] kind = "tagged" -> 2
      [] kind = "system_wall" -> 3
      [] kind = "system_profile" -> 4
      [] kind = "system_saved" -> 5

C8_Order ==
    /\ [](/\ \A j, k \in DOMAIN started :
                j < k =>
                   \/ CatalogRank(started[j][1]) < CatalogRank(started[k][1])
                   \/ started[j][1] = "main" /\ started[k][1] = "main"
          /\ (block = "main" /\ albums # <<>>) =>
                /\ Len(started) <= Len(albums)
                /\ \A k \in DOMAIN started :
                      started[k] = <<"main", albums[k].id>>
          /\ \A k \in DOMAIN started :
                LET kind == started[k][1]
                IN  IF args_dict.page_type = "album" THEN kind = "album"
                    ELSE /\ kind \in AlbumTypes
                         /\ args_dict[kind]
                         /\ kind = "tagged" => args_dict.page_type = "user"
          /\ \A j, k \in DOMAIN fetches :
                j < k => fetches[j].offset < fetches[k].offset
          /\ pc = "photo" => handled = SubSeq(photos, 1, i - 1))
    /\ [][ /\ (pc = "photo" /\ raised' = None) =>
                 /\ io'[1] = ProgressLine(offset * 1000 + i)
                 /\ pc' = "photo" => (i' = i + 1 /\ photos' = photos)
                 /\ pc' # "photo" => i = Len(photos)
           /\ Does(io', "query") => pc # "photo"
         ]_vars

\* a user run with everything selected went through two custom albums and
\* the four pseudo-albums
C8_Witness ==
    /\ pc = "done"
    /\ ending = "normal"
    /\ started = << <<"main", 11>>, <<"main", 12>>, <<"tagged", 0>>,
                    <<"system_wall", 0>>, <<"system_profile", 0>>,
                    <<"system_saved", 0>> >>

(***************************************************************************)
(* C5: for a photo record with sizes, the url that is fetched is the url   *)
(* of the first type, in the order w, z, y, x, r, q, p, m, o, s, that is   *)
(* among the record's sizes.                                               *)
(***************************************************************************)
Ranking == <<"w", "z", "y", "x", "r", "q", "p", "m", "o", "s">>

Ranked(sizes) ==
    {k \in DOMAIN Ranking : \E j \in DOMAIN sizes : sizes[j].type = Ranking[k]}

Best(sizes) == CHOOSE k \in Ranked(sizes) : \A h \in Ranked(sizes) : k <= h

C5_BestVariantFetched ==
    [][ (/\ pc = "photo"
         /\ photos[i].sizes # <<>>
         /\ Ranked(photos[i].sizes) # {}
         /\ raised' # "KeyboardInterrupt")
        => /\ Does(io', "get")
           /\ \A e \in DOMAIN io' :
                 io'[e].op = "get" =>
                    \E j \in DOMAIN photos[i].sizes :
                       /\ photos[i].sizes[j].type
                             = Ranking[Best(photos[i].sizes)]
                       /\ photos[i].sizes[j].url = io'[e].url
      ]_vars

\* the record with sizes s and w has been downloaded from the url of w
C5_Witness ==
    /\ pc = "photo"
    /\ i = 2
    /\ handled = << [id |-> 2, date |-> 1700000000,
                     sizes |-> << [type |-> "s", url |-> "u1"],
                                  [type |-> "w", url |-> "u2"] >>] >>
    /\ io[2] = HttpGet("u2")
    /\ raised = None

(***************************************************************************)
(* C10: the directory name del_restricted_symbols returns is the album     *)
(* title with leading and trailing whitespace trimmed and every            *)
(* occurrence of " : & . | \ / * ? < > replaced by one hyphen, all other   *)
(* characters unchanged; it holds none of those characters.                *)
(***************************************************************************)
Restricted == {"\"", ":", "&", ".", "|", "\\", "/", "*", "?", "<", ">"}

Trimmed(t) ==
    LET keep == {k \in DOMAIN t : t[k] \notin {" ", "\t"}}
    IN  IF keep = {} THEN <<>>
        ELSE SubSeq(t, CHOOSE k \in keep : \A h \in keep : k <= h,
                       CHOOSE k \in keep : \A h \in keep : k >= h)

C10_Sanitized ==
    LET t == Trimmed(album_title)
    IN  /\ Len(album_dir) = Len(t)
        /\ \A k \in DOMAIN t :
              album_dir[k] = IF t[k] \in Restricted THEN "-" ELSE t[k]
        /\ \A k \in DOMAIN album_dir : album_dir[k] \notin Restricted

\* download_album has been called with the title " /:"
C10_Witness ==
    /\ pc = "fetch"
    /\ n = 2
    /\ album_title = <<" ", "/", ":">>
    /\ album_dir = <<"-", "-">>

(***************************************************************************)
(* C11: del_restricted_symbols is idempotent: applied to the directory     *)
(* name it returned for a title, it returns that name again, also for a    *)
(* title with a restricted character next to leading or trailing           *)
(* whitespace.                                                             *)
(***************************************************************************)
C11_Idempotent ==
    /\ album_dir = del_restricted_symbols(album_title)
    /\ del_restricted_symbols(album_dir) = album_dir

\* download_album has been called with the title tab, "?", space
C11_Witness ==
    /\ pc = "fetch"
    /\ n = 2
    /\ album_title = <<"\t", "?", " ">>
    /\ album_dir = <<"-">>
    /\ del_restricted_symbols(album_dir) = <<"-">>

(***************************************************************************)
(* C12: the directory name del_restricted_symbols returns for an album     *)
(* title is never empty, so the photos of an album go into a directory     *)
(* below the output root, never into the output root itself.               *)
(***************************************************************************)
C12_DirNonEmpty ==
    pc = "fetch" => album_dir # <<>>

(***************************************************************************)
(* C13 as claimed: the file name is a function of (capture time, photo     *)
(* id), and two records of a page with distinct (capture time, photo id)   *)
(* are written to distinct file names.                                     *)
(***************************************************************************)
Key(photo) == <<photo.date, photo.id>>

\* the second record of the page is being written after the first one
SecondWrite ==
    /\ pc = "photo" /\ i = 2
    /\ Does(io, "write") /\ Does(io', "write")

C13_InjectiveInTimeAndId ==
    [][ SecondWrite =>
           /\ Key(photos[1]) = Key(photos[2]) => io'[3].name = io[3].name
           /\ Key(photos[1]) # Key(photos[2]) => io'[3].name # io[3].name
      ]_vars

(***************************************************************************)
(* C13 amended: the file name is a function of (capture time, photo id),   *)
(* and two records with distinct photo ids are written to distinct file    *)
(* names, whatever their capture times.                                    *)
(***************************************************************************)
C13_InjectiveInId ==
    [][ SecondWrite =>
           /\ io[3] = Write(album_dir, file_name(photos[1]))
           /\ io'[3] = Write(album_dir, file_name(photos[2]))
           /\ Key(photos[1]) = Key(photos[2]) => io'[3].name = io[3].name
           /\ photos[1].id # photos[2].id => io'[3].name # io[3].name
      ]_vars

\* photo 42 taken at 1700000000 (2023-11-14 22:13:20) was written as the
\* second record of the page
C13_Witness ==
    /\ pc = "finally"
    /\ completed
    /\ io = << ProgressLine(2), HttpGet("u1"),
               Write(<<"A", "l", "b", "u", "m">>,
                     <<"2", "0", "2", "3", "1", "1", "1", "4", "@", "2", "2",
                       "1", "3", "_", "4", "2", ".", "j", "p", "g">>) >>

(***************************************************************************)
(* C14: a malformed album link given with page type album is fatal and     *)
(* aborts the run before any network activity: when link_parse raises, no  *)
(* authentication, no query and no photo fetch has happened.               *)
(***************************************************************************)
C14_ParseErrorBeforeNetwork ==
    (args.page_type = "album" /\ ending \in {"IndexError", "ValueError"})
       => /\ exit_code = 1
          /\ ~authed
          /\ started = <<>>

(***************************************************************************)
(* C15: every run ends, and ends with the notice "Done." printed exactly   *)
(* once, as its last output, on every path: normal end, ApiError           *)
(* recovered or not, AuthError, parse error, photo fetch failure,          *)
(* KeyboardInterrupt.                                                      *)
(***************************************************************************)
DoneNotice == Stdout("Done.")

C15_DoneNoticeLast ==
    /\ [](pc = "done" => io = <<DoneNotice>>)
    /\ [][ /\ pc # "done"
           /\ pc' = "done" => pc = "finally"
           /\ \A k \in DOMAIN io' :
                 io'[k] = DoneNotice => (pc' = "done" /\ Len(io') = 1)
         ]_vars
    /\ <>(pc = "done")

\* a run ended by a malformed album link has printed the notice
C15_Witness ==
    /\ pc = "done"
    /\ ending = "ValueError"
    /\ io = <<DoneNotice>>

(***************************************************************************)
(* C16: a KeyboardInterrupt at any point of the run (authentication, owner *)
(* lookup, sizing, paging, photo fetch and write, inside the try block of  *)
(* an album too) stops the run at once: it is reported as stopped by the   *)
(* user, the run goes to the end of the script with no further query,      *)
(* fetch, write or album, and the exit code is 0; it is never handled as   *)
(* the error of an album.                                                  *)
(***************************************************************************)
C16_InterruptStopsRun ==
    [][ /\ raised' = "KeyboardInterrupt" =>
              /\ io' = <<Stdout("Stopped by the user.")>>
              /\ pc' = "finally"
              /\ ending' = "KeyboardInterrupt"
              /\ exit_code' = 0
              /\ started' = started
        /\ ending = "KeyboardInterrupt" =>
              /\ pc' = "done"
              /\ ending' = "KeyboardInterrupt"
              /\ exit_code' = 0
              /\ started' = started
              /\ io' = <<DoneNotice>>
      ]_vars

\* a user run interrupted in the tagged album, the wall album selected and
\* never started
C16_Witness ==
    /\ pc = "done"
    /\ ending = "KeyboardInterrupt"
    /\ exit_code = 0
    /\ args_dict.page_type = "user"
    /\ args_dict.system_wall
    /\ started = << <<"tagged", 0>> >>

(***************************************************************************)
(* C17 as claimed: for every album that is processed, the custom albums    *)
(* included, exactly one size probe (a query for the photos of the album   *)
(* with no count and no offset) is issued before download_album is called  *)
(* for it.                                                                 *)
(***************************************************************************)
IsProbe(e) ==
    /\ e.op = "query"
    /\ e.q.method \in {"photos.get", "photos.getUserPhotos"}
    /\ "count" \notin DOMAIN e.q
    /\ "offset" \notin DOMAIN e.q

Probes(events) == {k \in DOMAIN events : IsProbe(events[k])}

\* the step calls download_album
Called == pc' = "fetch" /\ fetches' = <<>>

Replies(events) ==
    {events[k].value : k \in {j \in DOMAIN events : events[j].op = "reply"}}

PhotoQueries(events) ==
    {events[k].q : k \in {j \in DOMAIN events :
                             /\ events[j].op = "query"
                             /\ events[j].q.method \in
                                   {"photos.getAlbums", "photos.get",
                                    "photos.getUserPhotos"}}}

C18_OwnerResolution ==
    [][ args.page_type # "album" =>
          /\ \A objs \in Replies(io') :
                IF objs = <<>>
                THEN /\ raised' = "IndexError"
                     /\ ending' = "IndexError"
                     /\ pc' = "finally"
                     /\ exit_code' = 1
                     /\ started' = <<>>
                     /\ ~Does(io', "write")
                ELSE /\ raised' = None
                     /\ owner_id' = IF args.page_type = "user"
                                     THEN objs[1].id
                                     ELSE 0 - objs[1].id
          /\ ending = "IndexError" =>
                /\ pc' = "done"
                /\ exit_code' = 1
                /\ started' = <<>>
                /\ ~Does(io', "query") /\ ~Does(io', "get")
                /\ ~Does(io', "write")
          /\ pc \notin {"start", "auth", "link", "owner"} =>
                /\ owner_id' = owner_id
                /\ \A q \in PhotoQueries(io') :
                      IF q.method = "photos.getUserPhotos"
                      THEN q.user_id = owner_id
                      ELSE q.owner_id = owner_id
      ]_vars

\* a group run pages an album with the negated id of the group
C18_Witness ==
    /\ args.page_type = "group"
    /\ pc = "photo"
    /\ block = "system_wall"
    /\ i = 1
    /\ owner_id = 0 - 1
    /\ io[1].q.method = "photos.get"
    /\ io[1].q.owner_id = 0 - 1
    /\ io[1].q.album_id = "wall"

(***************************************************************************)
(* C19: the size probe and every page query of the tagged album are        *)
(* photos.getUserPhotos keyed by the user id, with no album id; those of   *)
(* every other album are photos.get keyed by the owner id and the album    *)
(* id: the numeric id for a custom album (and the album of page type       *)
(* album), wall, profile, saved for the system albums; a group never gets  *)
(* the tagged query.                                                       *)
(***************************************************************************)
AlbumQueries(events) ==
    {events[k].q : k \in {j \in DOMAIN events :
                             /\ events[j].op = "query"
                             /\ events[j].q.method \in
                                   {"photos.get", "photos.getUserPhotos"}}}

C19_QueryShape ==
    [][ \A q \in AlbumQueries(io') :
          /\ pc \in {"size", "fetch"}
          /\ IF block = "tagged"
             THEN /\ q.method = "photos.getUserPhotos"
                  /\ "album_id" \notin DOMAIN q
                  /\ "owner_id" \notin DOMAIN q
                  /\ q.user_id = owner_id
                  /\ args.page_type = "user"
             ELSE /\ q.method = "photos.get"
                  /\ "user_id" \notin DOMAIN q
                  /\ q.owner_id = owner_id
                  /\ q.album_id =
                        CASE block = "system_wall" -> "wall"
                          [] block = "system_profile" -> "profile"
                          [] block = "system_saved" -> "saved"
                          [] block = "main" -> albums[n].id
                          [] block = "album" ->
                               link_parse_album(args.link).ids[2]
          /\ pc = "size" <=> ("count" \notin DOMAIN q)
      ]_vars

\* the second page of the tagged album has been asked for
C19_Witness ==
    /\ block = "tagged"
    /\ offset = 1
    /\ io[1] = Query([method |-> "photos.getUserPhotos",
                      user_id |-> owner_id, count |-> 1000,
                      offset |-> 1000])

(***************************************************************************)
(* C20: in a run of page type album exactly one album, the one whose owner *)
(* id and album id the link gives, is sized and paged, whatever selection  *)
(* flags are set: no owner lookup, no listing of albums, no query for the  *)
(* tagged or a system album, no time.sleep, and every file is written in   *)
(* the directory Album.                                                    *)
(***************************************************************************)
C20_SingleAlbum ==
    /\ [](args.page_type = "album" =>
            /\ Len(started) <= 1
            /\ \A k \in DOMAIN started :
                  started[k] = <<"album", link_parse_album(args.link).ids[2]>>
            /\ ~slept
            /\ (pc = "done" /\ ending = "normal") => Len(started) = 1)
    /\ [][ args.page_type = "album" =>
             \A k \in DOMAIN io' :
                /\ io'[k].op # "sleep"
                /\ io'[k].op = "query" =>
                      /\ io'[k].q.method = "photos.get"
                      /\ io'[k].q.owner_id = link_parse_album(args.link).ids[1]
                      /\ io'[k].q.album_id = link_parse_album(args.link).ids[2]
                /\ io'[k].op = "write" =>
                      io'[k].dir = <<"A", "l", "b", "u", "m">>
         ]_vars

\* a run of page type album with every selection flag set has ended after
\* the album of the link
C20_Witness ==
    /\ args.page_type = "album"
    /\ \A f \in Flags : args[f]
    /\ pc = "done"
    /\ ending = "normal"
    /\ started = << <<"album", 2>> >>

====
